---- MODULE Spec2Model ----
(***************************************************************************)
(* SyncDub: segment timing and audio reassembly.                           *)
(*                                                                         *)
(*   src/text_to_speech.py    adjust_audio_duration,                       *)
(*                            create_segmented_edge_tts,                   *)
(*                            configure_voice_characteristics,             *)
(*                            generate_edge_tts                            *)
(*   src/merge_audio_video.py get_video_duration, combine_audio_segments,  *)
(*                            merge_audio_with_video, create_dubbed_video  *)
(*   src/gradio_app.py        process_video                                *)
(*                                                                         *)
(* and, for the runs of two sessions at the same time, the accesses of     *)
(* generate_edge_tts to the clip files of the shared directory audio/.     *)
(*                                                                         *)
(* Units.  A Python float holding seconds is an integer number of          *)
(* microseconds; len(AudioSegment) is an integer number of milliseconds,   *)
(* as in pydub.  int(x * 1000) is therefore a real truncation (ToMs), and  *)
(* len(a) / 1000 a real widening (ToSec).  The arithmetic is exact: the    *)
(* rounding of IEEE doubles is not modelled, so a comparison of two        *)
(* quantities that are equal as rationals (a difference of exactly 0.1 s)  *)
(* goes here the way the rationals go.  The one exception is the final     *)
(* check of generate_edge_tts, which compares the two sides of such an     *)
(* equality on every run: there the outcome is that of the doubles         *)
(* (ExceedsGrace).                                                         *)
(***************************************************************************)
EXTENDS Integers, Sequences, FiniteSets, TLC

VARIABLES
    entry,            \* the function the behaviour is a call of
    segments,         \* the caller's segment list
    \* ---- create_segmented_edge_tts (one call at a time) ----
    r_pc,             \* position in create_segmented_edge_tts
    r_args,           \* its arguments: pitch, voice, output_path, target_duration
    audio,            \* local `audio`: the loaded clip, or None
    temp_exists,      \* whether the NamedTemporaryFile is on disk
    speed_factor,     \* local `speed_factor` as a fraction <<num, den>>, or None
    rate_adjustment,  \* local `rate_adjustment`: [sign, pct], or None
    backend_calls,    \* the edge-tts invocations of this call, in order
    wav_files,        \* audio/<start>.wav: path -> clip, for the files on disk
    \* ---- configure_voice_characteristics ----
    voice_config,     \* the caller's voice_config: the dict's items in insertion order
    v_pc,             \* position in configure_voice_characteristics
    v_i,              \* the item the for loop is at (1-based)
    current_male,     \* local `current_male`
    current_female,   \* local `current_female`
    enhanced_config,  \* local `enhanced_config`: speaker id -> profile
    returned,         \* what the calls of configure_voice_characteristics returned, in order
    \* ---- generate_edge_tts ----
    t_pc,             \* position in generate_edge_tts
    t_i,              \* the segment the for loop is at (1-based)
    max_end_time,     \* local `max_end_time`
    combined,         \* local `combined`: the composite track
    audio_files,      \* local `audio_files`
    dub_file,         \* <output_dir>/dubbed_conversation.wav, or no file
    exports,          \* how many times the run exported dub_file
    \* ---- combine_audio_segments ----
    c_pc,             \* position in combine_audio_segments
    c_i,              \* the segment the for loop is at (1-based)
    max_duration_arg, \* the argument max_duration as the caller passed it
    max_duration,     \* local `max_duration`
    base_audio,       \* local `base_audio`: the composite track
    segments_found,   \* local `segments_found`
    warned,           \* the segments logged as "Audio segment not found"
    ogg_files,        \* audio2/audio/<start>.ogg: path -> clip, for the files on disk
    temp_audio,       \* the NamedTemporaryFile of the combined audio, or no file
    c_result,         \* what combine_audio_segments returned
    \* ---- create_dubbed_video ----
    d_pc,             \* position in create_dubbed_video
    video_duration,   \* local `video_duration`
    merges,           \* the calls of merge_audio_with_video: the audio each was given
    success,          \* local `success`: what merge_audio_with_video returned
    output_video,     \* the duration of the video at output_path, or no file
    d_result,         \* what create_dubbed_video returned
    \* ---- process_video ----
    hf_token,         \* os.getenv("HUGGINGFACE_TOKEN")
    speaker_genders,  \* the argument speaker_genders: str(speaker id) -> gender
    p_pc,             \* position in process_video
    p_steps,          \* the upstream steps that have run, in order
    processing_status, \* the global dict: session id -> [status, progress]
    video_calls,      \* the calls of create_video_with_mixed_audio, with their outcome
    p_result,         \* what process_video returned
    \* ---- runs of generate_edge_tts in several sessions at the same time ----
    sessions,         \* session -> the locals of its run of generate_edge_tts
    audio_dir         \* audio/<start>.wav: path -> the render that wrote the file

rvars == <<r_pc, r_args, audio, temp_exists, speed_factor, rate_adjustment,
           backend_calls, wav_files>>

vvars == <<voice_config, v_pc, v_i, current_male, current_female,
           enhanced_config, returned>>

tvars == <<t_pc, t_i, max_end_time, combined, audio_files, dub_file, exports>>

cvars == <<c_pc, c_i, max_duration_arg, max_duration, base_audio, segments_found,
           warned, ogg_files, temp_audio, c_result>>

dvars == <<d_pc, video_duration, merges, success, output_video, d_result>>

pvars == <<hf_token, speaker_genders, p_pc, p_steps, processing_status, video_calls,
           p_result>>

svars == <<sessions, audio_dir>>

vars == <<entry, segments, rvars, vvars, tvars, cvars, dvars, pvars, svars>>

\* what an action of each function leaves alone
notRender == <<entry, segments, vvars, tvars, cvars, dvars, pvars, svars>>

notVoice == <<entry, segments, rvars, tvars, cvars, dvars, pvars, svars>>

notCombine == <<entry, segments, rvars, vvars, tvars, pvars, svars>>

\* target_duration=None
NoDuration == -1

\* no clip: a local not yet assigned, a file not on disk
NoClip == [len |-> -1, speech |-> -1]

\* speed_factor and rate_adjustment before the correction assigns them
NoFactor == <<0, 0>>

NoRate == [sign |-> "", pct |-> 0]

\* a speaker id with no entry in a voice mapping
NoProfile == [voice |-> "", pitch |-> 0]

\* no composite track: a local not yet assigned, a file not on disk
NoTrack == [len |-> -1, mix |-> <<>>]

----------------------------------------------------------------------------
(* Bounds and input sets *)

\* 0.1 s, the tolerance of every duration comparison, in microseconds
Tolerance == 100000

\* durations (ms) the synthesis backend may return for a text
Durations == {0, 600, 950, 1101, 2500, 19850}

\* target durations (microseconds) of a direct call of the renderer
RenderTargets == {500000, 1000000, 1000500, 20000000}

\* the most segments of a segment list
MaxSegments == 2

\* the start and end times (microseconds) of segments
SegTimes == {0, 836000, 2000500}

\* the n of the SPEAKER_n labels of segments
SegSpeakers == {0, 1}

\* what ffprobe may report as the video's duration (microseconds)
VideoDurations == {500000, 3000000}

\* lengths (ms) of the clips found in audio2/audio
OggLengths == {600, 2500}

\* the most speakers of a voice configuration; their ids are 0 .. MaxSpeakers - 1
MaxSpeakers == 4

SpeakerIds == 0 .. (MaxSpeakers - 1)

\* gender values of a voice configuration: the two documented ones, and "other"
\* for anything else (an unrecognized string, a structured config object)
Genders == {"male", "female", "other"}

----------------------------------------------------------------------------
(* Arithmetic of the conversions *)

Abs(x) == IF x < 0 THEN -x ELSE x

Min(a, b) == IF a <= b THEN a ELSE b

Max(a, b) == IF a >= b THEN a ELSE b

\* Python int(): truncation toward zero
Trunc(num, den) == IF num >= 0 THEN num \div den ELSE -((-num) \div den)

\* int(sec * 1000): seconds (microseconds here) to whole milliseconds
ToMs(sec) == Trunc(sec, 1000)

\* len(a) / 1000: milliseconds to seconds
ToSec(ms) == ms * 1000

----------------------------------------------------------------------------
(* pydub.AudioSegment, as far as the code uses it.  A rendered clip is its *)
(* length and how much of it is speech (the rest is trailing silence).     *)

Clip(ms) == [len |-> ms, speech |-> ms]

\* AudioSegment.silent(duration=ms)
Silence(ms) == [len |-> Max(ms, 0), speech |-> 0]

\* a + silence
Concat(a, b) == [len |-> a.len + b.len, speech |-> a.speech]

\* a[:ms]
Prefix(a, ms) == [len |-> Min(a.len, Max(ms, 0)), speech |-> Min(a.speech, Max(ms, 0))]

AdjustNoTrim(audio_segment, target_duration) ==
    LET current_duration == ToSec(audio_segment.len)
    IN  IF current_duration < target_duration
        THEN Concat(audio_segment,
                    Silence(ToMs(target_duration - current_duration)))
        ELSE audio_segment

\* adjust_audio_duration: pad with trailing silence or trim
adjust_audio_duration(audio_segment, target_duration) ==
    LET current_duration == ToSec(audio_segment.len)
    IN  IF current_duration < target_duration
        THEN Concat(audio_segment,
                    Silence(ToMs(target_duration - current_duration)))
        ELSE Prefix(audio_segment, ToMs(target_duration))

\* A composite track is its length and what was mixed into it: one entry
\* per overlay, the span [from, to) of the track the clip of segment `seg`
\* was added to (from >= to: nothing of the clip is in the track).

\* AudioSegment.silent(duration=ms), as the base of a composite
SilentTrack(ms) == [len |-> Max(ms, 0), mix |-> <<>>]

OverlayExtending(base, clip, position, seg) ==
    [len |-> Max(base.len, position + clip.len),
     mix |-> Append(base.mix, [seg |-> seg, from |-> position,
                               to |-> position + clip.len])]

OverlayInserting(base, clip, position, seg) ==
    [len |-> base.len + clip.len,
     mix |-> Append([k \in DOMAIN base.mix |->
                       IF base.mix[k].from >= position
                       THEN [seg |-> base.mix[k].seg,
                             from |-> base.mix[k].from + clip.len,
                             to |-> base.mix[k].to + clip.len]
                       ELSE base.mix[k]],
                    [seg |-> seg, from |-> position, to |-> position + clip.len])]

\* base.overlay(clip, position=position): the base up to `position`, then the
\* clip added to the base for as long as the base lasts, then the rest of the
\* base; the result is as long as the base
Overlay(base, clip, position, seg) ==
    [len |-> base.len,
     mix |-> Append(base.mix, [seg |-> seg, from |-> Min(position, base.len),
                               to |-> Min(position + clip.len, base.len)])]

\* track[:ms]
TrackPrefix(track, ms) ==
    [len |-> Min(track.len, Max(ms, 0)),
     mix |-> [k \in DOMAIN track.mix |->
                [seg |-> track.mix[k].seg,
                 from |-> Min(track.mix[k].from, Min(track.len, Max(ms, 0))),
                 to |-> Min(track.mix[k].to, Min(track.len, Max(ms, 0)))]]]

----------------------------------------------------------------------------
(* create_segmented_edge_tts *)

NeedsCorrectionLoose(current_duration, target_duration) ==
    Abs(current_duration - target_duration) > 2 * Tolerance

\* abs(current_duration - target_duration) > 0.1
NeedsCorrection(current_duration, target_duration) ==
    Abs(current_duration - target_duration) > Tolerance

SpeedFactorUnclamped(current_duration, target_duration) ==
    <<current_duration, target_duration>>

\* speed_factor = min(max(current_duration / target_duration, 0.7), 2.0),
\* kept as a fraction <<num, den>> with den > 0
SpeedFactor(current_duration, target_duration) ==
    IF current_duration * 10 < 7 * target_duration THEN <<7, 10>>
    ELSE IF current_duration > 2 * target_duration THEN <<2, 1>>
    ELSE <<current_duration, target_duration>>

\* the f-string of the rate: "-{int((1 - f) * 100)}%" when f < 1,
\* else "+{int((f - 1) * 100)}%"
RateAdjustment(f) ==
    IF f[1] < f[2]
    THEN [sign |-> "-", pct |-> Trunc((f[2] - f[1]) * 100, f[2])]
    ELSE [sign |-> "+", pct |-> Trunc((f[1] - f[2]) * 100, f[2])]

\* one edge-tts invocation: its command line, and the length (ms) of the
\* media it wrote (that of NoClip when it failed)
Command(rate, clip) ==
    [pitch |-> r_args.pitch, voice |-> r_args.voice, rate |-> rate, ms |-> clip.len]

\* the call: NamedTemporaryFile(delete=False) is created and closed
RenderCall(pitch, voice, output_path, target_duration) ==
    /\ r_pc = "idle"
    /\ r_pc' = "synth1"
    /\ r_args' = [pitch |-> pitch, voice |-> voice, output_path |-> output_path,
                  target_duration |-> target_duration]
    /\ temp_exists' = TRUE
    /\ audio' = NoClip
    /\ speed_factor' = NoFactor
    /\ rate_adjustment' = NoRate
    /\ backend_calls' = <<>>
    /\ UNCHANGED wav_files

\* subprocess.run(command, check=True); AudioSegment.from_file(temp_filename)
\* the backend writes a clip of some duration, or exits non-zero and the
\* CalledProcessError leaves the function
Synthesize1 ==
    /\ r_pc = "synth1"
    /\ \/ \E d \in Durations :
            /\ audio' = Clip(d)
            /\ backend_calls' = Append(backend_calls, Command(NoRate, Clip(d)))
            /\ r_pc' = "measure"
       \/ /\ audio' = audio
          /\ backend_calls' = Append(backend_calls, Command(NoRate, NoClip))
          /\ r_pc' = "raised"
    /\ UNCHANGED <<r_args, temp_exists, speed_factor, rate_adjustment, wav_files>>
    /\ UNCHANGED notRender

\* lines 87-105: no target, or within 0.1 s of it: keep the clip; otherwise
\* derive the rate, unlink the temporary file and go for the second pass
Measure ==
    /\ r_pc = "measure"
    /\ LET target_duration == r_args.target_duration
           current_duration == ToSec(audio.len)
       IN  IF target_duration = NoDuration
           THEN /\ r_pc' = "export"
                /\ UNCHANGED <<speed_factor, rate_adjustment, temp_exists>>
           ELSE IF ~NeedsCorrection(current_duration, target_duration)
           THEN /\ r_pc' = "export"
                /\ UNCHANGED <<speed_factor, rate_adjustment, temp_exists>>
           ELSE IF target_duration = 0
           THEN \* ZeroDivisionError
                /\ r_pc' = "raised"
                /\ UNCHANGED <<speed_factor, rate_adjustment, temp_exists>>
           ELSE /\ speed_factor' = SpeedFactor(current_duration, target_duration)
                /\ rate_adjustment' = RateAdjustment(speed_factor')
                /\ temp_exists' = FALSE
                /\ r_pc' = "synth2"
    /\ UNCHANGED <<r_args, audio, backend_calls, wav_files>>
    /\ UNCHANGED notRender

\* lines 108-119: the second invocation, with --rate; it writes the temporary
\* file again, or fails
Synthesize2 ==
    /\ r_pc = "synth2"
    /\ \/ \E d \in Durations :
            /\ audio' = Clip(d)
            /\ backend_calls' = Append(backend_calls, Command(rate_adjustment, Clip(d)))
            /\ temp_exists' = TRUE
            /\ r_pc' = "finetune"
       \/ /\ audio' = audio
          /\ backend_calls' = Append(backend_calls, Command(rate_adjustment, NoClip))
          /\ temp_exists' \in BOOLEAN
          /\ r_pc' = "raised"
    /\ UNCHANGED <<r_args, speed_factor, rate_adjustment, wav_files>>
    /\ UNCHANGED notRender

\* lines 122-124: the hard fallback
FineTune ==
    /\ r_pc = "finetune"
    /\ LET new_duration == ToSec(audio.len)
       IN  audio' = IF NeedsCorrection(new_duration, r_args.target_duration)
                    THEN adjust_audio_duration(audio, r_args.target_duration)
                    ELSE audio
    /\ r_pc' = "export"
    /\ UNCHANGED <<r_args, temp_exists, speed_factor, rate_adjustment,
                   backend_calls, wav_files>>
    /\ UNCHANGED notRender

ExportUnlessExists ==
    /\ r_pc = "export"
    /\ wav_files' = IF wav_files[r_args.output_path] # NoClip THEN wav_files
                    ELSE [wav_files EXCEPT ![r_args.output_path] = audio]
    /\ r_pc' = "unlink"
    /\ UNCHANGED <<r_args, audio, temp_exists, speed_factor, rate_adjustment,
                   backend_calls>>
    /\ UNCHANGED notRender

\* line 127: audio.export(output_path, format="wav")
Export ==
    /\ r_pc = "export"
    /\ wav_files' = [wav_files EXCEPT ![r_args.output_path] = audio]
    /\ r_pc' = "unlink"
    /\ UNCHANGED <<r_args, audio, temp_exists, speed_factor, rate_adjustment,
                   backend_calls>>
    /\ UNCHANGED notRender

\* lines 130-137: os.unlink(temp_file.name), log the final duration, return
RenderReturn ==
    /\ r_pc = "unlink"
    /\ temp_exists' = FALSE
    /\ r_pc' = "done"
    /\ UNCHANGED <<r_args, audio, speed_factor, rate_adjustment,
                   backend_calls, wav_files>>
    /\ UNCHANGED notRender

----------------------------------------------------------------------------
(* configure_voice_characteristics *)

male_voice == "hi-IN-MadhurNeural"

female_voice == "hi-IN-SwaraNeural"

\* male_pitches = [0, -30, 40], female_pitches = [0, 25, -25]
male_pitches == <<0, -30, 40>>

female_pitches == <<0, 25, -25>>

\* a list indexed as Python does, from 0
At(list, k) == list[k + 1]

\* an enhanced_config with no entries
EmptyConfig == [id \in SpeakerIds |-> NoProfile]

\* if isinstance(speaker_id, str) and speaker_id.isdigit(): int(speaker_id)
\* a key is [str, n]: the integer n, or the numeral string of n
NormalizeId(key) == key.n

CarriedCounters == [male |-> current_male, female |-> current_female]

\* current_male = 0; current_female = 0
FreshCounters == [male |-> 0, female |-> 0]

SharedIndex == current_male + current_female

\* the index the female branch uses
FemaleIndex == current_female

\* the call: an empty or None voice_config returns the default mapping at
\* once; otherwise the counters and the result start fresh
ConfigureCall ==
    /\ v_pc = "idle"
    /\ IF voice_config = <<>>
       THEN /\ returned' = Append(returned,
                  [EmptyConfig EXCEPT ![0] = [voice |-> male_voice, pitch |-> 0]])
            /\ UNCHANGED <<v_pc, v_i, current_male, current_female, enhanced_config>>
       ELSE /\ v_pc' = "loop"
            /\ v_i' = 1
            /\ current_male' = FreshCounters.male
            /\ current_female' = FreshCounters.female
            /\ enhanced_config' = EmptyConfig
            /\ UNCHANGED returned
    /\ UNCHANGED voice_config

IsNotFemale(gender) == gender # "female"

\* gender == "male"
IsMale(gender) == gender = "male"

\* one iteration of `for speaker_id, gender in voice_config.items()`
ConfigureItem ==
    /\ v_pc = "loop"
    /\ v_i <= Len(voice_config)
    /\ LET speaker_id == NormalizeId(voice_config[v_i].key)
           gender == voice_config[v_i].gender
       IN  IF IsMale(gender)
           THEN /\ enhanced_config' = [enhanced_config EXCEPT ![speaker_id] =
                       [voice |-> male_voice,
                        pitch |-> At(male_pitches, current_male % Len(male_pitches))]]
                /\ current_male' = current_male + 1
                /\ UNCHANGED current_female
           ELSE /\ enhanced_config' = [enhanced_config EXCEPT ![speaker_id] =
                       [voice |-> female_voice,
                        pitch |-> At(female_pitches, FemaleIndex % Len(female_pitches))]]
                /\ current_female' = current_female + 1
                /\ UNCHANGED current_male
    /\ v_i' = v_i + 1
    /\ UNCHANGED <<voice_config, v_pc, returned>>
    /\ UNCHANGED notVoice

\* return enhanced_config
ConfigureReturn ==
    /\ v_pc = "loop"
    /\ v_i > Len(voice_config)
    /\ returned' = Append(returned, enhanced_config)
    /\ v_pc' = "idle"
    /\ UNCHANGED <<voice_config, v_i, current_male, current_female, enhanced_config>>
    /\ UNCHANGED notVoice

VoiceIdle ==
    /\ v_pc = "idle"
    /\ v_i = 1
    /\ current_male = 0
    /\ current_female = 0
    /\ enhanced_config = EmptyConfig
    /\ returned = <<>>

\* a voice configuration: the speaker ids, in insertion order, their genders,
\* and whether the keys are integers or numeral strings
VoiceConfigOf(ids, g, str) ==
    [i \in DOMAIN ids |-> [key |-> [str |-> str, n |-> ids[i]], gender |-> g[i]]]

\* the orders of k distinct speaker ids
IdOrders(k) == {f \in [1..k -> SpeakerIds] : \A a, b \in 1..k : a # b => f[a] # f[b]}

----------------------------------------------------------------------------
(* Segment lists *)

\* the valid segments: end > start >= 0
Segment(speakers) ==
    { seg \in [start : SegTimes, end : SegTimes, speaker : speakers] :
        seg.end > seg.start }

SegmentLists(n, speakers) == UNION { [1..k -> Segment(speakers)] : k \in 0..n }

\* max(segment['end'] for segment in segments), of a non-empty list
MaxEnd(segs) ==
    CHOOSE m \in {segs[k].end : k \in DOMAIN segs} :
        \A k \in DOMAIN segs : segs[k].end <= m

\* re.search(r'SPEAKER_(\d+)', speaker): the digits of the label, else 0
\* (a label without digits is a negative speaker here)
SpeakerIdOf(speaker) == IF speaker >= 0 THEN speaker ELSE 0

VoiceMapBySegment ==
    [id \in SpeakerIds |->
        IF returned[Len(returned)][id] = NoProfile THEN NoProfile
        ELSE [voice |-> returned[Len(returned)][id].voice,
              pitch |-> At(male_pitches, (t_i - 1) % Len(male_pitches))]]

\* the mapping the run uses: what configure_voice_characteristics returned
VoiceMap == returned[Len(returned)]

HasKeyOrDefault(map, id) == TRUE

\* voice_config[speaker_id] succeeds: the dict has the key
HasKey(map, id) == id \in DOMAIN map /\ map[id] # NoProfile

----------------------------------------------------------------------------
(* generate_edge_tts *)

notTts == <<entry, segments, cvars, dvars, pvars, svars>>

RenderIdleNext ==
    /\ r_pc' = "idle"
    /\ r_args' = [pitch |-> 0, voice |-> "", output_path |-> 0,
                  target_duration |-> NoDuration]
    /\ audio' = NoClip
    /\ temp_exists' = FALSE
    /\ speed_factor' = NoFactor
    /\ rate_adjustment' = NoRate
    /\ backend_calls' = <<>>

\* generate_edge_tts is called: directly, or by generate_tts at line 222 of
\* process_video
TtsEntered == entry = "tts" \/ (entry = "process" /\ p_pc = "speech")

BaseLengthNoBuffer(end_time) == ToMs(end_time)

\* int(max_end_time * 1000) + 100
BaseLength(end_time) == ToMs(end_time) + 100

\* lines 206-214: max() of an empty list raises ValueError; otherwise the
\* silent base is allocated
TtsStart ==
    /\ TtsEntered
    /\ t_pc = "idle"
    /\ IF segments = <<>>
       THEN /\ t_pc' = "raised"
            /\ UNCHANGED <<max_end_time, combined>>
       ELSE /\ max_end_time' = MaxEnd(segments)
            /\ combined' = SilentTrack(BaseLength(max_end_time'))
            /\ t_pc' = "configure"
    /\ UNCHANGED <<t_i, audio_files, dub_file, exports>>
    /\ UNCHANGED <<rvars, vvars>>
    /\ UNCHANGED notTts

\* line 216: voice_config = configure_voice_characteristics(voice_config)
TtsConfigure ==
    /\ t_pc = "configure"
    /\ ConfigureCall
    /\ t_pc' = "loop"
    /\ t_i' = 1
    /\ UNCHANGED <<max_end_time, combined, audio_files, dub_file, exports>>
    /\ UNCHANGED rvars
    /\ UNCHANGED notTts

\* lines 223-252: the speaker's profile is looked up (KeyError when the id has
\* no entry) and the renderer is called with the segment's duration
TtsSegment ==
    /\ t_pc = "loop"
    /\ v_pc = "idle"
    /\ t_i <= Len(segments)
    /\ LET segment == segments[t_i]
           speaker_id == SpeakerIdOf(segment.speaker)
           duration == segment.end - segment.start
       IN  IF ~HasKey(VoiceMap, speaker_id)
           THEN /\ t_pc' = "raised"
                /\ UNCHANGED rvars
           ELSE /\ RenderCall(VoiceMap[speaker_id].pitch, VoiceMap[speaker_id].voice,
                              segment.start, duration)
                /\ t_pc' = "render"
    /\ UNCHANGED <<t_i, max_end_time, combined, audio_files, dub_file, exports>>
    /\ UNCHANGED vvars
    /\ UNCHANGED notTts

TtsRenderRetry ==
    /\ t_pc = "render"
    /\ r_pc = "raised"
    /\ t_pc' = "loop"
    /\ RenderIdleNext
    /\ UNCHANGED <<t_i, max_end_time, combined, audio_files, dub_file, exports>>
    /\ UNCHANGED <<wav_files, vvars>>
    /\ UNCHANGED notTts

TtsRenderSkip ==
    /\ t_pc = "render"
    /\ r_pc = "raised"
    /\ t_pc' = "loop"
    /\ t_i' = t_i + 1
    /\ RenderIdleNext
    /\ UNCHANGED <<max_end_time, combined, audio_files, dub_file, exports>>
    /\ UNCHANGED <<wav_files, vvars>>
    /\ UNCHANGED notTts

\* the renderer raised: the exception leaves generate_edge_tts
TtsRenderRaised ==
    /\ t_pc = "render"
    /\ r_pc = "raised"
    /\ t_pc' = "raised"
    /\ UNCHANGED <<t_i, max_end_time, combined, audio_files, dub_file, exports>>
    /\ UNCHANGED <<rvars, vvars>>
    /\ UNCHANGED notTts

TtsOverlayDeferred ==
    /\ t_pc = "render"
    /\ r_pc = "done"
    /\ audio_files' = Append(audio_files, segments[t_i].start)
    /\ t_i' = t_i + 1
    /\ t_pc' = "loop"
    /\ RenderIdleNext
    /\ UNCHANGED <<max_end_time, combined, dub_file, exports, wav_files>>
    /\ UNCHANGED vvars
    /\ UNCHANGED notTts

\* lines 254-261: the clip is loaded from its file and overlaid at
\* int(segment['start'] * 1000)
TtsOverlay ==
    /\ t_pc = "render"
    /\ r_pc = "done"
    /\ LET segment == segments[t_i]
           output_file == segment.start
           segment_audio == wav_files[output_file]
           position_ms == ToMs(segment.start)
       IN  /\ audio_files' = Append(audio_files, output_file)
           /\ combined' = Overlay(combined, segment_audio, position_ms, t_i)
    /\ t_i' = t_i + 1
    /\ t_pc' = "loop"
    /\ RenderIdleNext
    /\ UNCHANGED <<max_end_time, dub_file, exports, wav_files>>
    /\ UNCHANGED vvars
    /\ UNCHANGED notTts

\* line 263: combined.export(output_path, format="wav")
TtsExport ==
    /\ t_pc = "loop"
    /\ v_pc = "idle"
    /\ t_i > Len(segments)
    /\ dub_file' = combined
    /\ exports' = exports + 1
    /\ t_pc' = "cleanup"
    /\ UNCHANGED <<t_i, max_end_time, combined, audio_files>>
    /\ UNCHANGED <<rvars, vvars>>
    /\ UNCHANGED notTts

\* lines 267-271: the segment files are removed
TtsCleanup ==
    /\ t_pc = "cleanup"
    /\ wav_files' = [p \in DOMAIN wav_files |->
                       IF \E k \in DOMAIN audio_files : audio_files[k] = p
                       THEN NoClip ELSE wav_files[p]]
    /\ t_pc' = "verify"
    /\ UNCHANGED <<t_i, max_end_time, combined, audio_files, dub_file, exports>>
    /\ UNCHANGED <<r_pc, r_args, audio, temp_exists, speed_factor, rate_adjustment,
                   backend_calls>>
    /\ UNCHANGED vvars
    /\ UNCHANGED notTts

\* the end times e (of SegTimes) for which the double e + 0.1 is below the
\* decimal sum: 0.836 + 0.1 is 0.9359999999999999, while 2.0005 + 0.1 is
\* 2.1005000000000003
RoundedDown == {836000}

ExceedsGraceExactly(final_duration_sec, end_time) ==
    final_duration_sec > end_time + Tolerance

\* final_duration_sec > max_end_time + 0.1, in doubles: when both sides are
\* the same decimal, the left one (a number of milliseconds / 1000) is the
\* double nearest to it and the right one may be the double below
ExceedsGrace(final_duration_sec, end_time) ==
    \/ final_duration_sec > end_time + Tolerance
    \/ /\ final_duration_sec = end_time + Tolerance
       /\ end_time \in RoundedDown

\* lines 274-287: the exported file is read back and, when longer than
\* max_end_time + 0.1, trimmed to int(max_end_time * 1000) and exported again
TtsVerify ==
    /\ t_pc = "verify"
    /\ LET final_audio == dub_file
           final_duration_sec == ToSec(final_audio.len)
       IN  IF ExceedsGrace(final_duration_sec, max_end_time)
           THEN /\ dub_file' = TrackPrefix(final_audio, ToMs(max_end_time))
                /\ exports' = exports + 1
           ELSE UNCHANGED <<dub_file, exports>>
    /\ t_pc' = "done"
    /\ UNCHANGED <<t_i, max_end_time, combined, audio_files>>
    /\ UNCHANGED <<rvars, vvars>>
    /\ UNCHANGED notTts

TtsIdle ==
    /\ t_pc = "idle"
    /\ t_i = 1
    /\ max_end_time = 0
    /\ combined = NoTrack
    /\ audio_files = <<>>
    /\ dub_file = NoTrack
    /\ exports = 0

----------------------------------------------------------------------------
(* combine_audio_segments *)

BufferedShort(duration) == duration - Tolerance

\* max_duration += 0.1
Buffered(duration) == duration + Tolerance

OggExistsAlways(start_time) == TRUE

\* os.path.exists(f"audio2/audio/{start_time}.ogg")
OggExists(start_time) == ogg_files[start_time] # NoClip

\* lines 48-63: without max_duration an empty list returns None and a
\* non-empty one gives the largest end; the silent base is allocated with
\* the 0.1 s buffer
CombineCall(arg) ==
    /\ c_pc = "idle"
    /\ max_duration_arg' = arg
    /\ IF arg = NoDuration /\ segments = <<>>
       THEN /\ c_result' = "None"
            /\ c_pc' = "returned"
            /\ UNCHANGED <<max_duration, base_audio>>
       ELSE /\ max_duration' = Buffered(IF arg = NoDuration THEN MaxEnd(segments)
                                                            ELSE arg)
            /\ base_audio' = SilentTrack(ToMs(max_duration'))
            /\ c_pc' = "loop"
            /\ UNCHANGED c_result
    /\ c_i' = 1
    /\ segments_found' = 0
    /\ UNCHANGED <<warned, ogg_files, temp_audio>>

\* lines 65-82: one iteration of the loop: the clip file is overlaid at
\* int(start_time * 1000) when it exists, and logged as missing when not
CombineItem ==
    /\ c_pc = "loop"
    /\ c_i <= Len(segments)
    /\ LET start_time == segments[c_i].start
       IN  IF OggExists(start_time)
           THEN /\ base_audio' = Overlay(base_audio, ogg_files[start_time],
                                         ToMs(start_time), c_i)
                /\ segments_found' = segments_found + 1
                /\ UNCHANGED warned
           ELSE /\ warned' = Append(warned, c_i)
                /\ UNCHANGED <<base_audio, segments_found>>
    /\ c_i' = c_i + 1
    /\ UNCHANGED <<c_pc, max_duration_arg, max_duration, ogg_files, temp_audio,
                   c_result>>
    /\ UNCHANGED dvars
    /\ UNCHANGED notCombine

\* lines 86-95: the base is exported to a temporary file, whose path is returned
CombineExport ==
    /\ c_pc = "loop"
    /\ c_i > Len(segments)
    /\ temp_audio' = base_audio
    /\ c_result' = "path"
    /\ c_pc' = "returned"
    /\ UNCHANGED <<c_i, max_duration_arg, max_duration, base_audio, segments_found,
                   warned, ogg_files>>
    /\ UNCHANGED dvars
    /\ UNCHANGED notCombine

CombineIdle ==
    /\ c_pc = "idle"
    /\ c_i = 1
    /\ max_duration_arg = NoDuration
    /\ max_duration = 0
    /\ base_audio = NoTrack
    /\ segments_found = 0
    /\ warned = <<>>
    /\ temp_audio = NoTrack
    /\ c_result = ""

\* a direct call of combine_audio_segments, with or without max_duration
CombineDirect ==
    /\ entry = "combine"
    /\ \E arg \in VideoDurations \cup {NoDuration} : CombineCall(arg)
    /\ UNCHANGED dvars
    /\ UNCHANGED notCombine

----------------------------------------------------------------------------
(* create_dubbed_video *)

\* lines 164-169: ffprobe reports a duration, or fails and get_video_duration
\* returns None; `not video_duration` (None or 0.0) returns None, otherwise
\* combine_audio_segments is called with max_duration=video_duration
DubProbe ==
    /\ entry = "dub"
    /\ d_pc = "idle"
    /\ \E probed \in VideoDurations \cup {NoDuration, 0} :
          /\ video_duration' = probed
          /\ IF probed = NoDuration \/ probed = 0
             THEN /\ d_result' = "None"
                  /\ d_pc' = "returned"
                  /\ UNCHANGED cvars
             ELSE /\ CombineCall(probed)
                  /\ d_pc' = "combine"
                  /\ UNCHANGED d_result
    /\ UNCHANGED <<merges, success, output_video>>
    /\ UNCHANGED notCombine

DubResultIgnoringSuccess(outcome) == IF outcome = "raised" THEN "None" ELSE "path"

\* lines 182-187, 196: the output path when merge_audio_with_video returned
\* True, None when it returned False or raised
DubResult(outcome) == IF outcome = "True" THEN "path" ELSE "None"

TempKeptOnError(outcome) == IF outcome = "raised" THEN temp_audio ELSE NoTrack

\* lines 178-179, 193-194: os.unlink(combined_audio), after the merge
\* returned and in the except block alike
TempAfterMerge(outcome) == NoTrack

Longest(video, sound) == Max(video, sound)

\* ffmpeg -map 0:v -map 1:a -shortest: the output ends when the shorter of
\* the video and the audio ends
Shortest(video, sound) == Min(video, sound)

\* lines 115-136: the file ffmpeg leaves at output_path when it exits zero
MergedDuration(outcome, sound) ==
    IF outcome = "True" THEN Shortest(video_duration, ToSec(sound.len)) ELSE NoDuration

\* lines 170-196: no combined audio returns None; otherwise
\* merge_audio_with_video runs (True, False on a non-zero exit of ffmpeg, or
\* an exception the try block catches), the temporary file is unlinked, and
\* the output path is returned on success only
DubMerge ==
    /\ d_pc = "combine"
    /\ c_pc = "returned"
    /\ IF c_result = "None"
       THEN /\ d_result' = "None"
            /\ UNCHANGED <<merges, success, output_video, temp_audio>>
       ELSE /\ merges' = Append(merges, temp_audio)
            /\ \E outcome \in {"True", "False", "raised"} :
                  /\ success' = IF outcome = "raised" THEN "" ELSE outcome
                  /\ output_video' = MergedDuration(outcome, temp_audio)
                  /\ temp_audio' = TempAfterMerge(outcome)
                  /\ d_result' = DubResult(outcome)
    /\ d_pc' = "returned"
    /\ UNCHANGED <<c_pc, c_i, max_duration_arg, max_duration, base_audio,
                   segments_found, warned, ogg_files, c_result>>
    /\ UNCHANGED video_duration
    /\ UNCHANGED notCombine

DubIdle ==
    /\ d_pc = "idle"
    /\ video_duration = NoDuration
    /\ merges = <<>>
    /\ success = ""
    /\ output_video = NoDuration
    /\ d_result = ""

----------------------------------------------------------------------------
(* process_video, for the choice "Simple dubbing (Edge TTS)" *)

notProcess == <<entry, segments, rvars, tvars, cvars, dvars, svars>>

\* os.getenv("HUGGINGFACE_TOKEN"): None ("None" here), an empty value, a token
Tokens == {"None", "", "hf_token"}

NoTokenOnlyNone(token) == token = "None"

\* `not hf_token`
NoToken(token) == token \in {"None", ""}

\* lines 97-153: the calls made before the voices are configured, in order,
\* and the status and the progress (in percent) set before each
Upstream ==
    << [call |-> "initialize", status |-> "Initializing components", progress |-> 5],
       [call |-> "process_input", status |-> "Processing media source", progress |-> 10],
       [call |-> "extract_audio", status |-> "Processing media source", progress |-> 10],
       [call |-> "separate_audio_sources", status |-> "Separating audio sources",
        progress |-> 15],
       [call |-> "transcribe", status |-> "Transcribing audio", progress |-> 20],
       [call |-> "diarize", status |-> "Identifying speakers", progress |-> 30],
       [call |-> "assign_speakers_to_segments",
        status |-> "Assigning speakers to segments", progress |-> 40],
       [call |-> "translate_text", status |-> "Translating", progress |-> 50],
       [call |-> "generate_srt_subtitles", status |-> "Translating", progress |-> 50] >>

\* the argument session_id, and the id of a session that ran before
session_id == "session"

other_session == "other"

\* an entry of processing_status; progress in percent, -1 for an error
Entry(st, pr) == [status |-> st, progress |-> pr]

\* no entry for a session id
NoEntry == Entry("", 0)

\* processing_status[session_id]["status"] and ["progress"]
status == processing_status[session_id].status

progress == processing_status[session_id].progress

\* processing_status[session_id] = {"status": st, "progress": pr}
SetStatus(st, pr) ==
    processing_status' = [processing_status EXCEPT ![session_id] = Entry(st, pr)]

\* what process_video returns
NoResult == [error |-> FALSE, video |-> "", subtitle |-> ""]

\* {"error": True, "message": ...}
ErrorResult == [error |-> TRUE, video |-> "", subtitle |-> ""]

\* {"error": False, "video": downloadable_video, "subtitle": downloadable_subtitle, ...}
VideoResult == [error |-> FALSE, video |-> "downloadable_video",
                subtitle |-> "downloadable_subtitle"]

\* lines 289-292: except Exception
ProcessExcept ==
    /\ SetStatus("Error", -1)
    /\ p_result' = ErrorResult
    /\ p_pc' = "returned"

\* lines 67-95: the status is set, the session directories are made, and the
\* token is read; without one the error result is returned at once
ProcessStart ==
    /\ entry = "process"
    /\ p_pc = "idle"
    /\ IF NoToken(hf_token)
       THEN /\ SetStatus("Starting", 0)
            /\ p_result' = ErrorResult
            /\ p_pc' = "returned"
       ELSE /\ SetStatus(Upstream[1].status, Upstream[1].progress)
            /\ p_pc' = "upstream"
            /\ UNCHANGED p_result
    /\ UNCHANGED <<hf_token, speaker_genders, p_steps, video_calls>>
    /\ UNCHANGED vvars
    /\ UNCHANGED notProcess

\* lines 97-153: the next upstream call returns, or raises
ProcessUpstream ==
    /\ p_pc = "upstream"
    /\ Len(p_steps) < Len(Upstream)
    /\ \/ /\ p_steps' = Append(p_steps, Upstream[Len(p_steps) + 1].call)
          /\ LET next == Upstream[Min(Len(p_steps) + 2, Len(Upstream))]
             IN  SetStatus(next.status, next.progress)
          /\ UNCHANGED <<p_pc, p_result>>
       \/ /\ ProcessExcept
          /\ UNCHANGED p_steps
    /\ UNCHANGED <<hf_token, speaker_genders, video_calls>>
    /\ UNCHANGED vvars
    /\ UNCHANGED notProcess

\* the elements of a set of numbers, ascending
RECURSIVE Sorted(_)
Sorted(S) ==
    IF S = {} THEN <<>>
    ELSE LET least == CHOOSE x \in S : \A y \in S : x <= y
         IN  <<least>> \o Sorted(S \ {least})

\* lines 159-163: the speakers of the segments
UniqueSpeakers == {segments[k].speaker : k \in DOMAIN segments}

\* lines 210-214: the gender selected for the speaker, else "female" for an
\* even id and "male" for an odd one
GenderOf(speaker_id) ==
    IF speaker_genders[speaker_id] # "" THEN speaker_genders[speaker_id]
    ELSE IF speaker_id % 2 = 0 THEN "female" ELSE "male"

\* lines 204-216: voice_config[speaker_id] = gender, inserted for the
\* speakers in sorted order of their label
BuildVoiceConfig ==
    LET ids == Sorted(UniqueSpeakers)
    IN  [i \in DOMAIN ids |->
            [key |-> [str |-> FALSE, n |-> ids[i]], gender |-> GenderOf(ids[i])]]

\* lines 155-220: the voices are configured and the speech step announced
ProcessVoices ==
    /\ p_pc = "upstream"
    /\ Len(p_steps) = Len(Upstream)
    /\ voice_config' = BuildVoiceConfig
    /\ SetStatus("Generating speech", 70)
    /\ p_pc' = "speech"
    /\ UNCHANGED <<hf_token, speaker_genders, p_steps, video_calls, p_result>>
    /\ UNCHANGED <<v_pc, v_i, current_male, current_female, enhanced_config, returned>>
    /\ UNCHANGED notProcess

\* line 222: generate_tts returned the path of the dubbed audio
ProcessSpeechDone ==
    /\ p_pc = "speech"
    /\ t_pc = "done"
    /\ SetStatus("Creating final video", 85)
    /\ p_pc' = "video"
    /\ UNCHANGED <<hf_token, speaker_genders, p_steps, video_calls, p_result>>
    /\ UNCHANGED vvars
    /\ UNCHANGED notProcess

\* line 222: generate_tts raised
ProcessSpeechRaised ==
    /\ p_pc = "speech"
    /\ t_pc = "raised"
    /\ ProcessExcept
    /\ UNCHANGED <<hf_token, speaker_genders, p_steps, video_calls>>
    /\ UNCHANGED vvars
    /\ UNCHANGED notProcess

\* what a call of create_video_with_mixed_audio may do: return True or
\* False, or raise
VideoOutcomes == {"True", "False", "raised"}

\* lines 228-242: create_video_with_mixed_audio is called with the dubbed
\* audio; a false result and a missing output file both raise
ProcessVideo ==
    /\ p_pc = "video"
    /\ \E outcome \in VideoOutcomes, exists \in BOOLEAN :
          /\ video_calls' = Append(video_calls,
                [audio |-> dub_file, outcome |-> outcome, exists |-> exists])
          /\ IF outcome = "True" /\ exists
             THEN /\ p_pc' = "copy"
                  /\ UNCHANGED <<processing_status, p_result>>
             ELSE ProcessExcept
    /\ UNCHANGED <<hf_token, speaker_genders, p_steps>>
    /\ UNCHANGED vvars
    /\ UNCHANGED notProcess

\* lines 244-287: the files are copied to the outputs directory (shutil.copy2
\* may raise) and the result names them
ProcessCopy ==
    /\ p_pc = "copy"
    /\ \/ /\ SetStatus("Completed", 100)
          /\ p_result' = VideoResult
          /\ p_pc' = "returned"
       \/ ProcessExcept
    /\ UNCHANGED <<hf_token, speaker_genders, p_steps, video_calls>>
    /\ UNCHANGED vvars
    /\ UNCHANGED notProcess

ProcessIdle ==
    /\ p_pc = "idle"
    /\ p_steps = <<>>
    /\ processing_status = (session_id :> NoEntry) @@
                           (other_session :> Entry("Completed", 100))
    /\ video_calls = <<>>
    /\ p_result = NoResult

\* no token is read and no gender is selected: a run that is not one of
\* process_video
NoProcess ==
    /\ hf_token = "None"
    /\ speaker_genders = [id \in SpeakerIds |-> ""]
    /\ ProcessIdle

----------------------------------------------------------------------------
(* Runs of generate_edge_tts in two sessions at the same time.  Of a run   *)
(* only the accesses to the clip files are kept: a segment is its start,   *)
(* which names its file, and a clip is the render that wrote it.           *)

notSessions == <<entry, segments, rvars, vvars, tvars, cvars, dvars, pvars>>

Sessions == {1, 2}

\* the start times (microseconds) of the segments of a session
SessionStarts == {0, 1000000}

\* no file at a path of audio/
NoFile == [session |-> 0, seg |-> 0]

\* the file that rendering segment i of session s writes
Render(s, i) == [session |-> s, seg |-> i]

ScopedPath(s, start) == <<s, start>>

\* output_file = f"audio/{start}.wav": the path does not name the session
OutputFile(s, start) == <<0, start>>

\* the paths of audio/
AudioPaths == {OutputFile(s, start) : s \in Sessions, start \in SessionStarts}
                 \cup {ScopedPath(s, start) : s \in Sessions, start \in SessionStarts}

Run(s) == sessions[s]

\* line 239 of the run of session s
RunFile(s) == OutputFile(s, Run(s).segments[Run(s).i])

\* lines 246-252, 127: create_segmented_edge_tts exports the clip of the
\* segment at hand to output_file
SessionRender(s) ==
    /\ entry = "sessions"
    /\ Run(s).pc = "loop"
    /\ Run(s).i <= Len(Run(s).segments)
    /\ audio_dir' = [audio_dir EXCEPT ![RunFile(s)] = Render(s, Run(s).i)]
    /\ sessions' = [sessions EXCEPT ![s].pc = "exported"]
    /\ UNCHANGED notSessions

\* line 133: create_segmented_edge_tts reads output_path back for its log
\* (FileNotFoundError when the file is gone) and returns
SessionReadBack(s) ==
    /\ entry = "sessions"
    /\ Run(s).pc = "exported"
    /\ sessions' = [sessions EXCEPT ![s].pc =
                       IF audio_dir[RunFile(s)] = NoFile THEN "raised" ELSE "rendered"]
    /\ UNCHANGED audio_dir
    /\ UNCHANGED notSessions

\* lines 254-261: the path is recorded, the file at output_file is loaded
\* (FileNotFoundError when it is gone) and overlaid
SessionOverlay(s) ==
    /\ entry = "sessions"
    /\ Run(s).pc = "rendered"
    /\ sessions' = [sessions EXCEPT ![s] =
          IF audio_dir[RunFile(s)] = NoFile
          THEN [Run(s) EXCEPT !.audio_files = Append(@, RunFile(s)),
                              !.pc = "raised"]
          ELSE [Run(s) EXCEPT !.audio_files = Append(@, RunFile(s)),
                              !.combined = Append(@, audio_dir[RunFile(s)]),
                              !.i = @ + 1,
                              !.pc = "loop"]]
    /\ UNCHANGED audio_dir
    /\ UNCHANGED notSessions

\* line 263: the composite is exported to the session's own output_dir
SessionExport(s) ==
    /\ entry = "sessions"
    /\ Run(s).pc = "loop"
    /\ Run(s).i > Len(Run(s).segments)
    /\ sessions' = [sessions EXCEPT ![s].pc = "cleanup"]
    /\ UNCHANGED audio_dir
    /\ UNCHANGED notSessions

\* lines 267-271: os.remove of the next path of audio_files; an error (the
\* file is already gone) is swallowed
SessionRemove(s) ==
    /\ entry = "sessions"
    /\ Run(s).pc = "cleanup"
    /\ Run(s).removed < Len(Run(s).audio_files)
    /\ audio_dir' = [audio_dir EXCEPT ![Run(s).audio_files[Run(s).removed + 1]] = NoFile]
    /\ sessions' = [sessions EXCEPT ![s].removed = @ + 1]
    /\ UNCHANGED notSessions

\* lines 274-287: the run returns
SessionReturn(s) ==
    /\ entry = "sessions"
    /\ Run(s).pc = "cleanup"
    /\ Run(s).removed = Len(Run(s).audio_files)
    /\ sessions' = [sessions EXCEPT ![s].pc = "done"]
    /\ UNCHANGED audio_dir
    /\ UNCHANGED notSessions

\* a run that has not started, on a list of starts
NewRun(starts) ==
    [segments |-> starts, pc |-> "loop", i |-> 1, combined |-> <<>>,
     audio_files |-> <<>>, removed |-> 0]

\* the non-empty lists of at most n segment starts
StartLists(n) == UNION { [1..k -> SessionStarts] : k \in 1..n }

\* no session runs
NoSessions ==
    /\ sessions = [s \in Sessions |-> NewRun(<<>>)]
    /\ audio_dir = [p \in AudioPaths |-> NoFile]

----------------------------------------------------------------------------
(* A direct call of create_segmented_edge_tts *)

RenderIdle ==
    /\ r_pc = "idle"
    /\ r_args = [pitch |-> 0, voice |-> "", output_path |-> 0,
                 target_duration |-> NoDuration]
    /\ audio = NoClip
    /\ temp_exists = FALSE
    /\ speed_factor = NoFactor
    /\ rate_adjustment = NoRate
    /\ backend_calls = <<>>

NoWavFiles == [p \in SegTimes |-> NoClip]

NoOggFiles == [p \in SegTimes |-> NoClip]

\* the output_path of a direct call of the renderer
DirectPath == CHOOSE p \in SegTimes : TRUE

DirectRender ==
    /\ entry = "render"
    /\ \E target_duration \in RenderTargets \cup {NoDuration} :
          RenderCall(0, female_voice, DirectPath, target_duration)
    /\ UNCHANGED notRender

InitRender ==
    /\ entry = "render"
    /\ segments = <<>>
    /\ RenderIdle
    /\ wav_files = NoWavFiles
    /\ VoiceIdle
    /\ voice_config = <<>>
    /\ TtsIdle
    /\ CombineIdle
    /\ ogg_files = NoOggFiles
    /\ DubIdle
    /\ NoProcess
    /\ NoSessions

NextRender ==
    \/ DirectRender
    \/ Synthesize1
    \/ Measure
    \/ Synthesize2
    \/ FineTune
    \/ Export
    \/ RenderReturn

SpecRender == InitRender /\ [][NextRender]_vars

----------------------------------------------------------------------------
(* Two calls of configure_voice_characteristics on the same voice_config *)

VoiceCall ==
    /\ entry = "voice"
    /\ Len(returned) < 2
    /\ ConfigureCall
    /\ UNCHANGED notVoice

InitVoice ==
    /\ entry = "voice"
    /\ segments = <<>>
    /\ RenderIdle
    /\ wav_files = NoWavFiles
    /\ VoiceIdle
    /\ \E k \in 0..MaxSpeakers :
          \E ids \in IdOrders(k), g \in [1..k -> Genders], str \in BOOLEAN :
             voice_config = VoiceConfigOf(ids, g, str)
    /\ TtsIdle
    /\ CombineIdle
    /\ ogg_files = NoOggFiles
    /\ DubIdle
    /\ NoProcess
    /\ NoSessions

NextVoice ==
    \/ VoiceCall
    \/ ConfigureItem
    \/ ConfigureReturn

SpecVoice == InitVoice /\ [][NextVoice]_vars

----------------------------------------------------------------------------
(* The pipeline: a run of generate_edge_tts, of combine_audio_segments or  *)
(* of create_dubbed_video on a segment list                                *)

\* the voice configurations of a run of generate_edge_tts
TtsVoiceConfigs ==
    { <<>>,
      <<[key |-> [str |-> FALSE, n |-> 0], gender |-> "male"]>>,
      <<[key |-> [str |-> FALSE, n |-> 0], gender |-> "female"],
        [key |-> [str |-> FALSE, n |-> 1], gender |-> "male"]>> }

InitTts ==
    /\ entry = "tts"
    /\ segments \in SegmentLists(MaxSegments, SegSpeakers)
    /\ RenderIdle
    /\ wav_files = NoWavFiles
    /\ VoiceIdle
    /\ voice_config \in TtsVoiceConfigs
    /\ TtsIdle
    /\ CombineIdle
    /\ ogg_files = NoOggFiles
    /\ DubIdle
    /\ NoProcess
    /\ NoSessions

InitCompose ==
    /\ entry \in {"combine", "dub"}
    /\ segments \in SegmentLists(MaxSegments, {0})
    /\ RenderIdle
    /\ wav_files = NoWavFiles
    /\ VoiceIdle
    /\ voice_config = <<>>
    /\ TtsIdle
    /\ CombineIdle
    /\ ogg_files \in [SegTimes -> {NoClip} \cup {Clip(ms) : ms \in OggLengths}]
    /\ DubIdle
    /\ NoProcess
    /\ NoSessions

\* the selections of the gender panel: none, or "male" for every speaker
PanelGenders == {[id \in SpeakerIds |-> ""], [id \in SpeakerIds |-> "male"]}

InitProcess ==
    /\ entry = "process"
    /\ segments \in SegmentLists(MaxSegments, SegSpeakers)
    /\ RenderIdle
    /\ wav_files = NoWavFiles
    /\ VoiceIdle
    /\ voice_config = <<>>
    /\ TtsIdle
    /\ CombineIdle
    /\ ogg_files = NoOggFiles
    /\ DubIdle
    /\ hf_token \in Tokens
    /\ speaker_genders \in PanelGenders
    /\ ProcessIdle
    /\ NoSessions

Init == InitTts \/ InitCompose \/ InitProcess

Next ==
    \/ TtsStart
    \/ TtsConfigure
    \/ ConfigureItem
    \/ ConfigureReturn
    \/ TtsSegment
    \/ Synthesize1
    \/ Measure
    \/ Synthesize2
    \/ FineTune
    \/ Export
    \/ RenderReturn
    \/ TtsRenderRaised
    \/ TtsOverlay
    \/ TtsExport
    \/ TtsCleanup
    \/ TtsVerify
    \/ CombineDirect
    \/ CombineItem
    \/ CombineExport
    \/ DubProbe
    \/ DubMerge
    \/ ProcessStart
    \/ ProcessUpstream
    \/ ProcessVoices
    \/ ProcessSpeechDone
    \/ ProcessSpeechRaised
    \/ ProcessVideo
    \/ ProcessCopy

Spec == Init /\ [][Next]_vars

----------------------------------------------------------------------------
(* Two sessions, each running generate_edge_tts on its own segments *)

InitSessions ==
    /\ entry = "sessions"
    /\ segments = <<>>
    /\ RenderIdle
    /\ wav_files = NoWavFiles
    /\ VoiceIdle
    /\ voice_config = <<>>
    /\ TtsIdle
    /\ CombineIdle
    /\ ogg_files = NoOggFiles
    /\ DubIdle
    /\ NoProcess
    /\ sessions \in [Sessions -> {NewRun(starts) : starts \in StartLists(MaxSegments)}]
    /\ audio_dir = [p \in AudioPaths |-> NoFile]

NextSessions ==
    \/ \E s \in Sessions : SessionRender(s)
    \/ \E s \in Sessions : SessionReadBack(s)
    \/ \E s \in Sessions : SessionOverlay(s)
    \/ \E s \in Sessions : SessionExport(s)
    \/ \E s \in Sessions : SessionRemove(s)
    \/ \E s \in Sessions : SessionReturn(s)

SpecSessions == InitSessions /\ [][NextSessions]_vars

----------------------------------------------------------------------------
(* The renderer's claims, under SpecRender *)

\* the call's target duration and the duration the first pass measured
RenderTarget == r_args.target_duration

NaturalDuration == ToSec(backend_calls[1].ms)

\* the renderer is past its last backend invocation
SynthesisOver == r_pc \in {"export", "unlink", "done"}

RenderedClip == wav_files[r_args.output_path]

\* the corrective retry was made and its clip was still off by more than 0.1 s
FallbackRan ==
    /\ Len(backend_calls) = 2
    /\ Abs(ToSec(backend_calls[2].ms) - RenderTarget) > Tolerance

CorrectionTriggered == speed_factor # NoFactor

\* C8: whenever a correction is triggered, the speed factor is d0 / target
\* clamped to [0.7, 2.0], and the rate derived from it is a signed whole
\* percentage between -30% and +100%, no larger than |factor - 1| * 100,
\* with "-" exactly when the factor is below 1 and "+" otherwise.
C8_SpeedFactorClamped ==
    CorrectionTriggered =>
        LET num == speed_factor[1]
            den == speed_factor[2]
            d0 == NaturalDuration
            T == RenderTarget
        IN  /\ den > 0
            /\ 7 * den <= 10 * num
            /\ num <= 2 * den
            /\ IF 10 * d0 < 7 * T THEN 10 * num = 7 * den
               ELSE IF d0 > 2 * T THEN num = 2 * den
               ELSE num = d0 /\ den = T
            /\ rate_adjustment.sign \in {"-", "+"}
            /\ rate_adjustment.sign = "-" <=> num < den
            /\ rate_adjustment.pct \in 0..100
            /\ rate_adjustment.sign = "-" => rate_adjustment.pct <= 30
            /\ rate_adjustment.pct * den <= Abs(num - den) * 100
            /\ Len(backend_calls) = 2 => backend_calls[2].rate = rate_adjustment

\* natural duration 2.5 s for a 1.0 s target: the factor 2.5 is clamped to
\* 2.0 and the retry is invoked with +100%
C8_Witness ==
    /\ Len(backend_calls) = 2
    /\ RenderTarget = 1000000
    /\ backend_calls[1].ms = 2500
    /\ speed_factor = <<2, 1>>
    /\ backend_calls[2].rate = [sign |-> "+", pct |-> 100]

----------------------------------------------------------------------------
(* The claims of voice assignment, under SpecVoice *)

\* the branch an item takes: "male", or the female branch for anything else
Branch(gender) == IF gender = "male" THEN "male" ELSE "female"

\* how many items before item i take the same branch as item i
Ordinal(i) ==
    Cardinality({j \in 1..(i - 1) :
        Branch(voice_config[j].gender) = Branch(voice_config[i].gender)})

\* C9: voice assignment is deterministic: two calls of
\* configure_voice_characteristics on the same voice_config return the same
\* speaker -> (voice, pitch) mapping; the first call leaves nothing behind
\* that the second one reads.
C9_SameMappingTwice ==
    Len(returned) = 2 => returned[1] = returned[2]

\* both calls returned, for a configuration in which both counters moved
\* and neither ended on a multiple of the palette's length
C9_Witness ==
    /\ Len(returned) = 2
    /\ current_male % 3 # 0
    /\ current_female % 3 # 0
    /\ returned[2] # EmptyConfig

\* C10: the k-th speaker of the male branch (k from 0, in processing order)
\* gets the male voice with pitch [0, -30, 40][k mod 3]; the k-th speaker of
\* the female branch (any gender but "male") gets the female voice with
\* pitch [0, 25, -25][k mod 3].  k counts the speakers of the same branch
\* only, so the speakers of the other branch do not change a profile, and
\* the 4th speaker of a branch gets the pitch of the 1st.
C10_PitchByOrdinal ==
    Len(returned) >= 1 =>
        \A i \in DOMAIN voice_config :
            LET k == Ordinal(i)
                profile == returned[1][voice_config[i].key.n]
            IN  IF voice_config[i].gender = "male"
                THEN profile = [voice |-> "hi-IN-MadhurNeural",
                                pitch |-> <<0, -30, 40>>[(k % 3) + 1]]
                ELSE profile = [voice |-> "hi-IN-SwaraNeural",
                                pitch |-> <<0, 25, -25>>[(k % 3) + 1]]

\* four male speakers: the pitches are 0, -30, 40 and, for the 4th, 0 again
C10_Witness ==
    /\ Len(returned) >= 1
    /\ Len(voice_config) = 4
    /\ \A i \in 1..4 : voice_config[i].gender = "male"
    /\ returned[1][voice_config[1].key.n].pitch = 0
    /\ returned[1][voice_config[2].key.n].pitch = -30
    /\ returned[1][voice_config[3].key.n].pitch = 40
    /\ returned[1][voice_config[4].key.n] = returned[1][voice_config[1].key.n]

\* how many speakers with a smaller id take the same branch as item i
SortedOrdinal(i) ==
    Cardinality({j \in DOMAIN voice_config :
        /\ voice_config[j].key.n < voice_config[i].key.n
        /\ Branch(voice_config[j].gender) = Branch(voice_config[i].gender)})

\* C11, as stated: voice assignment processes the speakers in sorted order
\* of speaker id, so the mapping depends only on the set of (speaker id,
\* gender) pairs: each speaker gets the palette entry at the number of
\* speakers of its branch with a smaller id, mod 3, whatever the order in
\* which the pairs were inserted into voice_config.
C11_SortedOrderMapping ==
    Len(returned) >= 1 =>
        \A i \in DOMAIN voice_config :
            returned[1][voice_config[i].key.n].pitch =
                IF voice_config[i].gender = "male"
                THEN At(male_pitches, SortedOrdinal(i) % Len(male_pitches))
                ELSE At(female_pitches, SortedOrdinal(i) % Len(female_pitches))

\* the items of voice_config the for loop has processed
Processed == 1..(v_i - 1)

\* the items whose gender is not "male", among the first n
NotMale(n) == {j \in 1..n : voice_config[j].gender # "male"}

\* C22: any gender value other than "male" (an unrecognized string, a
\* structured config object) is treated as female: the speaker gets the next
\* entry of the female palette, the female counter and not the male one is
\* advanced, and the call returns a profile for every speaker (no exception).
C22_UnknownGenderIsFemale ==
    /\ v_pc = "loop" =>
          /\ current_female = Cardinality(NotMale(v_i - 1))
          /\ current_male = (v_i - 1) - Cardinality(NotMale(v_i - 1))
          /\ \A j \in Processed :
                voice_config[j].gender \notin {"male", "female"} =>
                    enhanced_config[voice_config[j].key.n] =
                        [voice |-> "hi-IN-SwaraNeural",
                         pitch |-> <<0, 25, -25>>[(Cardinality(NotMale(j - 1)) % 3) + 1]]
    /\ \A r \in DOMAIN returned :
          \A j \in DOMAIN voice_config :
             /\ returned[r][voice_config[j].key.n] # NoProfile
             /\ voice_config[j].gender \notin {"male", "female"} =>
                    returned[r][voice_config[j].key.n].voice = "hi-IN-SwaraNeural"

\* a male speaker, a female one, then one of an unrecognized gender: the
\* third got the second entry of the female palette, and the male counter
\* stands at one
C22_Witness ==
    /\ Len(returned) >= 1
    /\ Len(voice_config) = 3
    /\ voice_config[1].gender = "male"
    /\ voice_config[2].gender = "female"
    /\ voice_config[3].gender = "other"
    /\ returned[1][voice_config[3].key.n] = [voice |-> female_voice, pitch |-> 25]
    /\ current_male = 1
    /\ current_female = 2

----------------------------------------------------------------------------
(* The claims of the composite track, under Spec *)

\* the target duration of a composition: the video duration when supplied,
\* otherwise the largest segment end
TargetDuration(supplied) == IF supplied # NoDuration THEN supplied ELSE MaxEnd(segments)

\* C1: for a non-empty list of valid segments, the composite track the run
\* leaves on disk is within 0.1 s of the target duration: the file of
\* generate_edge_tts after its final check, the temporary file of
\* combine_audio_segments, and the audio create_dubbed_video hands to the
\* merge, whatever the lengths of the clips overlaid.
C1_FinalDurationWithinTolerance ==
    segments # <<>> =>
        /\ t_pc = "done" =>
              Abs(ToSec(dub_file.len) - TargetDuration(NoDuration)) <= Tolerance
        /\ temp_audio # NoTrack =>
              Abs(ToSec(temp_audio.len) - TargetDuration(max_duration_arg)) <= Tolerance
        /\ \A k \in DOMAIN merges :
              Abs(ToSec(merges[k].len) - TargetDuration(max_duration_arg)) <= Tolerance

\* generate_edge_tts finished a run of two segments in which a clip was not
\* as long as its segment
C1_Witness ==
    /\ t_pc = "done"
    /\ Len(dub_file.mix) = 2
    /\ \E k \in DOMAIN dub_file.mix :
          ToSec(dub_file.mix[k].to - dub_file.mix[k].from)
             # segments[k].end - segments[k].start

\* C2: when a target video duration is supplied, the composite is never
\* shorter than it: not when the base is allocated, not after any overlay,
\* not in the exported file nor in what is handed to the merge; what the
\* clips leave uncovered up to the target is trailing silence.  Likewise the
\* file of generate_edge_tts is never shorter than the largest segment end.
C2_NeverShorterThanTarget ==
    /\ (max_duration_arg # NoDuration /\ base_audio # NoTrack) =>
          ToSec(base_audio.len) >= max_duration_arg
    /\ (max_duration_arg # NoDuration /\ temp_audio # NoTrack) =>
          ToSec(temp_audio.len) >= max_duration_arg
    /\ max_duration_arg # NoDuration =>
          \A k \in DOMAIN merges : ToSec(merges[k].len) >= max_duration_arg
    /\ dub_file # NoTrack => ToSec(dub_file.len) >= max_end_time

\* a 3.0 s target, every clip overlaid ends before it, and the exported
\* track still lasts 3.0 s or more
C2_Witness ==
    /\ c_pc = "returned"
    /\ max_duration_arg = 3000000
    /\ temp_audio # NoTrack
    /\ temp_audio.mix # <<>>
    /\ \A k \in DOMAIN temp_audio.mix : ToSec(temp_audio.mix[k].to) < max_duration_arg
    /\ ToSec(temp_audio.len) >= max_duration_arg

\* the segments of the list whose clip file is on disk, and those whose is not
Present == {k \in DOMAIN segments : ogg_files[segments[k].start] # NoClip}

Missing == {k \in DOMAIN segments : ogg_files[segments[k].start] = NoClip}

\* the segments a track has an overlay of
Overlaid(track) == {track.mix[k].seg : k \in DOMAIN track.mix}

\* C3: combine_audio_segments completes for any set of missing clip files:
\* a non-empty list always returns a path; each missing segment is logged
\* and skipped; exactly the segments whose file exists are overlaid, once
\* each; and the track returned has the full allocated length, with nothing
\* mixed in for a missing segment (its slot holds silence, or what the
\* clips of other segments put there).
C3_MissingFilesSkipped ==
    /\ (c_pc = "returned" /\ segments # <<>>) => c_result = "path"
    /\ c_result = "path" =>
          LET track == IF temp_audio # NoTrack THEN temp_audio ELSE merges[1]
          IN  /\ Overlaid(track) = Present
              /\ Len(track.mix) = Cardinality(Present)
              /\ segments_found = Cardinality(Present)
              /\ {warned[k] : k \in DOMAIN warned} = Missing
              /\ Len(warned) = Cardinality(Missing)
              /\ track.len = ToMs(TargetDuration(max_duration_arg) + Tolerance)
              /\ \A k \in DOMAIN track.mix : track.mix[k].seg \notin Missing

\* a list of two segments, the clip of the one missing and that of the other
\* on disk: the call returned its track with one overlay and one warning
C3_Witness ==
    /\ c_result = "path"
    /\ temp_audio # NoTrack
    /\ Len(segments) = 2
    /\ Cardinality(Missing) = 1
    /\ Len(temp_audio.mix) = 1
    /\ Len(warned) = 1

\* C4, as stated: an empty segment list fails fast on every entry path:
\* nothing is exported, no merge is attempted, and the call does not
\* return a path.
C4_EmptyListFailsFast ==
    segments = <<>> =>
        /\ dub_file = NoTrack
        /\ temp_audio = NoTrack
        /\ merges = <<>>
        /\ c_result # "path"
        /\ d_result # "path"

\* C5, as stated: a segment that starts beyond the allocated length of the
\* track is not silently dropped: at least part of every non-empty clip
\* overlaid is in the track.
C5_NoClipDropped ==
    /\ \A k \in DOMAIN base_audio.mix :
          ogg_files[segments[base_audio.mix[k].seg].start].len > 0 =>
              base_audio.mix[k].from < base_audio.mix[k].to
----------------------------------------------------------------------------
(* The claims of a run of generate_edge_tts, under Spec *)

\* the voices are configured and the for loop of generate_edge_tts is running
InSegmentLoop == t_pc \in {"loop", "render"} /\ v_pc = "idle"

\* C12: within one run of generate_edge_tts the speaker -> profile mapping
\* is computed once, before the first segment is rendered, and no render or
\* overlay step changes it; every segment is rendered, on each backend
\* invocation, with the voice and the pitch the mapping has for its
\* speaker, so two segments of the same speaker get the same voice and pitch.
C12_VoiceMapFixed ==
    [][ /\ InSegmentLoop => returned' = returned
        /\ t_pc' = "render" =>
              LET profile == returned'[1][segments[t_i'].speaker]
              IN  /\ Len(returned') = 1
                  /\ r_args'.voice = profile.voice
                  /\ r_args'.pitch = profile.pitch
                  /\ \A k \in DOMAIN backend_calls' :
                        /\ backend_calls'[k].voice = profile.voice
                        /\ backend_calls'[k].pitch = profile.pitch ]_vars

\* the second of two segments of speaker 1 is being rendered, on its
\* corrective retry, with the voice speaker 1 was given
C12_Witness ==
    /\ t_pc = "render"
    /\ t_i = 2
    /\ segments[1].speaker = 1
    /\ segments[2].speaker = 1
    /\ Len(backend_calls) = 2
    /\ backend_calls[2].voice = male_voice
    /\ returned[1][0].voice = female_voice
----------------------------------------------------------------------------
(* The stages of a pipeline run, under Spec *)

\* the stage a run of generate_edge_tts or of process_video is in, by the
\* statement it is at: the renderer at work on a segment (or the voices
\* being configured for it) is RenderingSegments; a rendered clip about to
\* be overlaid, and the track about to be exported, is Compositing; the
\* final check of the exported file is Reconciling; the call of
\* create_video_with_mixed_audio and the copy of its output is Merging
SpeechStage ==
    IF p_result = ErrorResult \/ t_pc = "raised"
       \/ (t_pc = "render" /\ r_pc = "raised") THEN "Failed"
    ELSE IF p_result = VideoResult \/ (entry = "tts" /\ t_pc = "done") THEN "Done"
    ELSE IF p_pc \in {"video", "copy"} THEN "Merging"
    ELSE IF t_pc \in {"verify", "done"} THEN "Reconciling"
    ELSE IF \/ t_pc = "cleanup"
            \/ (t_pc = "render" /\ r_pc = "done")
            \/ (t_pc = "loop" /\ v_pc = "idle" /\ t_i > Len(segments))
         THEN "Compositing"
    ELSE IF t_pc \in {"configure", "loop", "render"} THEN "RenderingSegments"
    ELSE "Idle"

\* the stage a run of combine_audio_segments or of create_dubbed_video is in
ComposeStage ==
    IF entry = "dub" /\ d_pc = "returned"
    THEN (IF d_result = "path" THEN "Done" ELSE "Failed")
    ELSE IF c_pc = "returned"
    THEN (IF c_result = "None" THEN "Failed"
          ELSE IF entry = "dub" THEN "Merging" ELSE "Done")
    ELSE IF c_pc = "loop" THEN "Compositing"
    ELSE "Idle"

Stage == IF entry \in {"combine", "dub"} THEN ComposeStage ELSE SpeechStage

Rank(stage) ==
    CASE stage = "Idle" -> 0
      [] stage = "RenderingSegments" -> 1
      [] stage = "Compositing" -> 2
      [] stage = "Reconciling" -> 3
      [] stage = "Merging" -> 4
      [] stage \in {"Done", "Failed"} -> 5

Terminal(stage) == stage \in {"Done", "Failed"}

\* C13, as stated: a run passes through Idle, RenderingSegments,
\* Compositing, Reconciling, Merging, Done only in this order, or enters the
\* terminal Failed from any of them; no stage is entered again after it was
\* left, and none after Done or Failed.
C13_StagesInOrder ==
    [][ /\ Rank(Stage') >= Rank(Stage)
        /\ Terminal(Stage) => Stage' = Stage ]_vars

\* the overlay of clip t_i, with a segment left to render
NextSegment ==
    /\ Stage = "Compositing"
    /\ Stage' = "RenderingSegments"
    /\ t_pc = "render"
    /\ t_pc' = "loop"
    /\ t_i' = t_i + 1
    /\ t_i' <= Len(segments)
    /\ Len(combined'.mix) = Len(combined.mix) + 1

\* C13, amended: the stages come in the order Idle, RenderingSegments,
\* Compositing, Reconciling, Merging, Done, except that generate_edge_tts
\* renders and composites segment by segment: the overlay of clip i leads
\* back to RenderingSegments for segment i + 1 while segments remain.  The
\* renderer is started for a segment only when the clips of all earlier
\* segments are in the track, so no segment is rendered again; Failed is
\* entered from any stage, and nothing follows Done or Failed.
C13_StagesInOrderPerSegment ==
    [][ /\ Rank(Stage') >= Rank(Stage) \/ NextSegment
        /\ Terminal(Stage) => Stage' = Stage
        /\ t_i' >= t_i
        /\ (r_pc = "idle" /\ r_pc' # "idle" /\ entry # "render") =>
              Len(combined.mix) = t_i - 1 ]_vars

\* process_video returned the video of a run of two segments: both were
\* rendered and overlaid, the second after the first was in the track
C13_Witness ==
    /\ p_result = VideoResult
    /\ Stage = "Done"
    /\ Len(segments) = 2
    /\ Len(dub_file.mix) = 2
    /\ Len(video_calls) = 1
----------------------------------------------------------------------------
(* Failures, under Spec *)

\* an edge-tts invocation of the segment at hand exited non-zero
BackendFailed ==
    /\ entry \in {"tts", "process"}
    /\ r_pc = "raised"
    /\ backend_calls # <<>>
    /\ backend_calls[Len(backend_calls)].ms = NoClip.len

\* C14: a backend failure on any segment, on the first pass or on the
\* corrective retry, leaves the renderer and generate_edge_tts as an
\* exception: from then on no backend invocation is made and no segment is
\* rendered or overlaid, the run exports no composite track, and no merge is
\* started (process_video returns its error result at most).
C14_BackendFailureIsFatal ==
    [][ /\ BackendFailed' =>
              /\ t_pc' \in {"render", "raised"}
              /\ exports' = 0
              /\ dub_file' = NoTrack
              /\ video_calls' = <<>>
              /\ merges' = <<>>
              /\ p_result' # VideoResult
        /\ BackendFailed =>
              /\ BackendFailed'
              /\ backend_calls' = backend_calls
              /\ t_i' = t_i
              /\ audio_files' = audio_files
              /\ combined' = combined ]_vars

\* the corrective retry of the second segment failed after the first
\* segment was overlaid, and process_video returned its error result
C14_Witness ==
    /\ BackendFailed
    /\ Len(backend_calls) = 2
    /\ t_i = 2
    /\ Len(combined.mix) = 1
    /\ t_pc = "raised"
    /\ p_result = ErrorResult
    /\ video_calls = <<>>

\* every upstream call of process_video has returned
UpstreamDone == p_steps = [k \in DOMAIN Upstream |-> Upstream[k].call]

\* a stage of the run of process_video raised, or its merge reported failure
StageFailed ==
    \/ t_pc = "raised"
    \/ \E k \in DOMAIN video_calls :
          video_calls[k].outcome # "True" \/ ~video_calls[k].exists

\* C15: no partial video is returned.  process_video returns a video path
\* only when every upstream step, the speech generation and the merge have
\* succeeded and the output file exists; when a stage raised or the merge
\* reported failure its result is an error without video or subtitle path.
\* create_dubbed_video returns the output path only when the duration was
\* probed, the audio was combined and merge_audio_with_video returned True,
\* and None otherwise.
C15_NoPartialVideo ==
    /\ p_pc = "returned" => p_result \in {VideoResult, ErrorResult}
    /\ p_result.video # "" =>
          /\ p_result = VideoResult
          /\ UpstreamDone
          /\ t_pc = "done"
          /\ dub_file # NoTrack
          /\ Len(video_calls) = 1
          /\ video_calls[1] = [audio |-> dub_file, outcome |-> "True", exists |-> TRUE]
          /\ status = "Completed"
    /\ p_result.error => p_result.video = "" /\ p_result.subtitle = ""
    /\ StageFailed => p_result.video = ""
    /\ (StageFailed /\ p_pc = "returned") => p_result = ErrorResult
    /\ d_result = "path" =>
          /\ video_duration > 0
          /\ c_result = "path"
          /\ Len(merges) = 1
          /\ success = "True"
    /\ (d_pc = "returned" /\ success # "True") => d_result = "None"

\* create_video_with_mixed_audio returned True but left no output file, and
\* process_video returned the error result
C15_Witness ==
    /\ p_pc = "returned"
    /\ p_result = ErrorResult
    /\ UpstreamDone
    /\ t_pc = "done"
    /\ Len(video_calls) = 1
    /\ video_calls[1].outcome = "True"
    /\ ~video_calls[1].exists

\* C16, as stated: temporary render artifacts are deleted on every path:
\* once create_segmented_edge_tts has ended, by return or by an exception,
\* its temporary file no longer exists, and once generate_edge_tts has
\* ended, by return or by an exception, no per-segment clip file of the
\* run exists.
C16_TempArtifactsRemoved ==
    /\ r_pc \in {"done", "raised"} => ~temp_exists
    /\ t_pc \in {"done", "raised"} => \A path \in DOMAIN wav_files : wav_files[path] = NoClip

\* C17: in create_dubbed_video the temporary file of the combined audio is
\* removed once the merge has been attempted: after the merge returned True,
\* returned False or raised, and so on every return of create_dubbed_video,
\* the file combine_audio_segments exported no longer exists.
C17_TempAudioRemoved ==
    /\ (entry = "dub" /\ merges # <<>>) => temp_audio = NoTrack
    /\ d_pc = "returned" => temp_audio = NoTrack

\* merge_audio_with_video was given the combined audio and raised:
\* create_dubbed_video returned None and the temporary file is gone
C17_Witness ==
    /\ d_pc = "returned"
    /\ Len(merges) = 1
    /\ merges[1] # NoTrack
    /\ success = ""
    /\ d_result = "None"
    /\ temp_audio = NoTrack

\* C18: when HUGGINGFACE_TOKEN is missing (unset or empty), process_video
\* fails at once and is not retried: its only step returns the error
\* result, and the run executes no upstream step (ingestion, transcription,
\* diarization, translation), configures no voice, renders nothing,
\* composites nothing and starts no merge.
C18_MissingTokenFailsAtOnce ==
    (entry = "process" /\ hf_token \in {"None", ""}) =>
        /\ p_pc \in {"idle", "returned"}
        /\ p_pc = "returned" => p_result = ErrorResult
        /\ p_steps = <<>>
        /\ voice_config = <<>>
        /\ returned = <<>>
        /\ t_pc = "idle"
        /\ r_pc = "idle"
        /\ backend_calls = <<>>
        /\ combined = NoTrack
        /\ dub_file = NoTrack
        /\ video_calls = <<>>
        /\ merges = <<>>

\* the token is set but empty, and process_video has returned its error
\* result with the status still "Starting"
C18_Witness ==
    /\ entry = "process"
    /\ hf_token = ""
    /\ segments # <<>>
    /\ p_pc = "returned"
    /\ p_result = ErrorResult
    /\ status = "Starting"
----------------------------------------------------------------------------
(* The composite track under overlay, under Spec *)

\* track `after` is track `before` with one more clip mixed in: the same
\* length, what was mixed in before at the same place, and the new clip
\* within the track
MixedInto(before, after) ==
    /\ after.len = before.len
    /\ Len(after.mix) = Len(before.mix) + 1
    /\ \A k \in DOMAIN before.mix : after.mix[k] = before.mix[k]
    /\ after.mix[Len(after.mix)].from >= 0
    /\ after.mix[Len(after.mix)].to <= after.len

\* two clips of a track share some of its time
Overlapping(track) ==
    \E j, k \in DOMAIN track.mix :
        /\ j < k
        /\ track.mix[k].from < track.mix[j].to
        /\ track.mix[j].from < track.mix[k].to
        /\ track.mix[j].from < track.mix[j].to
        /\ track.mix[k].from < track.mix[k].to

\* C19: an overlay never shifts or lengthens the composite: the track of
\* generate_edge_tts and that of combine_audio_segments have, after every
\* overlay, the length the silent base was allocated with, whatever the
\* order of the segments and the lengths of the clips; every clip mixed in
\* earlier stays where it was, also when the new clip covers the same time.
C19_OverlayKeepsLength ==
    [][ /\ (combined # NoTrack /\ combined' # combined) => MixedInto(combined, combined')
        /\ (base_audio # NoTrack /\ base_audio' # base_audio) =>
              MixedInto(base_audio, base_audio')
        /\ combined' # NoTrack => combined'.len = ToMs(max_end_time') + 100
        /\ base_audio' # NoTrack => base_audio'.len = ToMs(max_duration') ]_vars

\* two segments given out of order, the clip of the later one reaching
\* into the time of the other: both are in the track, which is as long as
\* the base was
C19_Witness ==
    /\ t_pc = "loop"
    /\ Len(combined.mix) = 2
    /\ segments[2].start < segments[1].start
    /\ Overlapping(combined)
    /\ combined.len = ToMs(max_end_time) + 100
----------------------------------------------------------------------------
(* The order of rendering, under Spec *)

\* C20: within a run of generate_edge_tts the segments are rendered one at
\* a time, in list order: the renderer is at work only on the segment the
\* loop is at (one call, hence one backend invocation at a time, made with
\* that segment's path and duration), and while segment i is rendered the
\* clips of segments 1 .. i-1, and no others, are in the track, each at
\* int(start * 1000) ms.
C20_OneSegmentAtATime ==
    /\ (entry \in {"tts", "process"} /\ r_pc # "idle") =>
          /\ t_pc \in {"render", "raised"}
          /\ t_i \in DOMAIN segments
          /\ r_args.output_path = segments[t_i].start
          /\ r_args.target_duration = segments[t_i].end - segments[t_i].start
    /\ t_pc = "idle" => backend_calls = <<>>
    /\ t_pc \in {"loop", "render"} =>
          /\ Len(combined.mix) = t_i - 1
          /\ Len(audio_files) = t_i - 1
          /\ \A k \in 1..(t_i - 1) :
                /\ combined.mix[k].seg = k
                /\ combined.mix[k].from = ToMs(segments[k].start)
                /\ audio_files[k] = segments[k].start

\* the renderer has been called for the second segment and has not yet
\* invoked the backend; the clip of the first is in the track at its
\* start, 836 ms
C20_Witness ==
    /\ t_pc = "render"
    /\ t_i = 2
    /\ r_pc = "synth1"
    /\ backend_calls = <<>>
    /\ Len(combined.mix) = 1
    /\ combined.mix[1].from = ToMs(segments[1].start)
    /\ segments[1].start = 836000
----------------------------------------------------------------------------
(* The merged video, under Spec *)

\* C21: in create_dubbed_video the audio handed to merge_audio_with_video is
\* never shorter than the probed video duration (it is the duration plus the
\* 0.1 s buffer, truncated to whole milliseconds, hence longer), so the
\* output ffmpeg writes with -shortest lasts as long as the video and not as
\* long as the audio.
C21_VideoDecidesLength ==
    entry = "dub" =>
        /\ \A k \in DOMAIN merges :
              /\ ToSec(merges[k].len) >= video_duration
              /\ merges[k].len = ToMs(video_duration + Tolerance)
        /\ output_video # NoDuration =>
              /\ success = "True"
              /\ output_video = video_duration
              /\ output_video < ToSec(merges[1].len)

\* a 0.5 s video and a clip of 2.5 s overlaid at 0: the audio handed over
\* is 0.6 s long, the merged video 0.5 s
C21_Witness ==
    /\ d_result = "path"
    /\ video_duration = 500000
    /\ Len(merges) = 1
    /\ merges[1].len = 600
    /\ merges[1].mix # <<>>
    /\ ogg_files[segments[merges[1].mix[1].seg].start].len = 2500
    /\ output_video = 500000
----------------------------------------------------------------------------
(* Segments of the same start, under Spec *)

\* the renderer has returned and its clip is about to be overlaid
OverlayStep == t_pc = "render" /\ t_pc' = "loop"

\* C24: in a single run of generate_edge_tts every rendered segment is
\* overlaid exactly once, also when two segments have the same start: the
\* file audio/<start>.wav holds, when it is loaded, the clip just rendered
\* for the segment at hand (a later render overwrites the file of an
\* earlier one only after that one was overlaid), each overlay adds that
\* clip and no other at the segment's start, and the exported track has one
\* clip per segment, in list order.
C24_EachClipOverlaidOnce ==
    [][ /\ OverlayStep =>
              /\ audio # NoClip
              /\ wav_files[segments[t_i].start] = audio
              /\ combined'.mix =
                    Append(combined.mix,
                           [seg |-> t_i,
                            from |-> Min(ToMs(segments[t_i].start), combined.len),
                            to |-> Min(ToMs(segments[t_i].start) + audio.len,
                                       combined.len)])
        /\ ~OverlayStep => (combined' = combined \/ combined'.mix = <<>>)
        /\ dub_file' # NoTrack =>
              /\ Len(dub_file'.mix) = Len(segments)
              /\ \A k \in DOMAIN segments : dub_file'.mix[k].seg = k ]_vars

\* two segments of the same start and different ends: the run finished
\* with both clips in the track, at the same place and of different lengths
C24_Witness ==
    /\ t_pc = "done"
    /\ Len(segments) = 2
    /\ segments[1].start = segments[2].start
    /\ Len(dub_file.mix) = 2
    /\ dub_file.mix[1].from = dub_file.mix[2].from
    /\ dub_file.mix[1].to # dub_file.mix[2].to
    /\ wav_files[segments[1].start] = NoClip
----------------------------------------------------------------------------
(* The export of the composite, under Spec *)

\* C25, as stated: the composite track is exported exactly once per
\* successful run of generate_edge_tts, after all segments are overlaid: the
\* exported duration is never greater than max_end + 0.1 s, so the
\* truncate-and-re-export branch is never taken and the file keeps the
\* track as it was exported, int(max_end * 1000) + 100 ms long.
C25_ExportedOnce ==
    /\ exports <= 1
    /\ exports = 1 => Len(dub_file.mix) = Len(segments)
    /\ t_pc = "done" =>
          /\ exports = 1
          /\ dub_file = combined
          /\ dub_file.len = ToMs(max_end_time) + 100
----------------------------------------------------------------------------
(* The processing status, under Spec *)

\* C26, as stated: every call of process_video that returns leaves
\* processing_status[session_id] in a terminal state that agrees with the
\* result: "Completed" with progress 1.0 exactly when the result has error
\* False, "Error: ..." with progress -1 exactly when it has error True;
\* before that the progress of the session never decreases, and the entry of
\* no other session is written.
C26_StatusAgreesWithResult ==
    [][ /\ p_pc' = "returned" =>
              /\ processing_status'[session_id] = Entry("Completed", 100)
                    <=> ~p_result'.error
              /\ processing_status'[session_id] = Entry("Error", -1)
                    <=> p_result'.error
        /\ p_pc' # "returned" => progress' >= progress
        /\ processing_status'[other_session] = processing_status[other_session]
      ]_vars
----------------------------------------------------------------------------
(* A speaker without a profile, under Spec *)

\* the profile the mapping of the run has for the speaker of segment i
ProfileOf(i) == returned[1][SpeakerIdOf(segments[i].speaker)]

\* the loop is at a segment whose speaker id has no entry in the mapping
SpeakerUnmapped ==
    /\ entry \in {"tts", "process"}
    /\ returned # <<>>
    /\ t_i \in DOMAIN segments
    /\ ProfileOf(t_i) = NoProfile

\* C27: generate_edge_tts looks up the speaker id of each segment in the
\* mapping configure_voice_characteristics returned before it invokes the
\* backend for the segment: the renderer is called, and the backend invoked,
\* only with the voice and pitch of an entry of the mapping.  When the id
\* has no entry (an empty voice configuration gives a mapping for speaker 0
\* only) the run ends at that segment with a KeyError: no backend call is
\* made for it, no default voice is used, the clips of the earlier segments
\* are all that was overlaid, and no composite is exported.
C27_MissingSpeakerAborts ==
    /\ (entry \in {"tts", "process"} /\ t_pc = "render") =>
          /\ ProfileOf(t_i) # NoProfile
          /\ r_args.voice = ProfileOf(t_i).voice
          /\ r_args.pitch = ProfileOf(t_i).pitch
    /\ entry \in {"tts", "process"} =>
          \A k \in DOMAIN backend_calls :
             backend_calls[k].voice \in {"hi-IN-MadhurNeural", "hi-IN-SwaraNeural"}
    /\ SpeakerUnmapped =>
          /\ t_pc \in {"loop", "raised"}
          /\ r_pc = "idle"
          /\ backend_calls = <<>>
          /\ Len(combined.mix) = t_i - 1
          /\ exports = 0
          /\ dub_file = NoTrack
          /\ p_result # VideoResult
    /\ (t_pc = "raised" /\ r_pc = "idle" /\ segments # <<>>) => SpeakerUnmapped

\* no voice configuration, so a mapping for speaker 0 only: the segment of
\* SPEAKER_00 was rendered and overlaid, and the run ended at the segment
\* of SPEAKER_01 without a backend call
C27_Witness ==
    /\ entry = "tts"
    /\ voice_config = <<>>
    /\ Len(returned) = 1
    /\ returned[1][0] = [voice |-> male_voice, pitch |-> 0]
    /\ Len(segments) = 2
    /\ segments[1].speaker = 0
    /\ segments[2].speaker = 1
    /\ t_pc = "raised"
    /\ t_i = 2
    /\ Len(combined.mix) = 1
    /\ backend_calls = <<>>
    /\ dub_file = NoTrack
----------------------------------------------------------------------------
(* The clip files of two sessions, under SpecSessions *)

\* C23, as stated: runs of generate_edge_tts in different sessions do not
\* interfere through the clip files: each run overlays only clips rendered
\* from its own segments, the clip of segment k as the k-th, and none fails
\* for a clip file that is gone, also when segments of the two sessions
\* have the same start.
C23_SessionsDoNotInterfere ==
    \A s \in Sessions :
        /\ \A k \in DOMAIN sessions[s].combined :
              sessions[s].combined[k] = [session |-> s, seg |-> k]
        /\ sessions[s].pc # "raised"
====
